---- MODULE Spec2Model ----
(***************************************************************************)
(* Model of the length-limited Huffman compressor of Myers/compression.c:  *)
(* the compressor object and its lifecycle, the Larmore-Hirschberg code    *)
(* construction, (de)serialisation, the bit-stream encoder and decoder and *)
(* the 2-bit DNA path.  Bytes are 0..255, 64-bit words are sequences of 64 *)
(* bits (most significant bit first), memory buffers are sequences of      *)
(* bytes in address order.                                                 *)
(***************************************************************************)
EXTENDS Integers, Sequences, FiniteSets, TLC

VARIABLES v,        \* the compressor made by vcCreate (state -1 once freed)
          w,        \* the compressor vcDeserialize makes on the reader's host
          dna,      \* the predefined _DNAcompressor
          blob,     \* the buffer vcSerialize writes and vcDeserialize reads
          io,       \* the encode/decode buffers of the caller
          call,     \* the call at which the process stopped, NoCall while it runs
          nadd,     \* vcAddToTable calls that returned, per compressor
          pc        \* "run"; "exit" once a call has ended the process

vars == <<v, w, dna, blob, io, call, nadd, pc>>

(***************************************************************************)
(* Program constants                                                       *)
(***************************************************************************)
HUFF_CUTOFF == 12
EMPTY == 0
FILLED == 1
CODED_WITH == 2
CODED_READ == 3

Byte == 0..255

(***************************************************************************)
(* Bounds of the model                                                     *)
(***************************************************************************)
\* number of vcAddToTable calls explored on one compressor
MaxAdds == 2
\* number of vcDecode calls explored on one encoded buffer
MaxDecodes == 1
\* longest run of one byte in the encoder inputs built by repetition
MaxRun == 9
\* longest DNA input enumerated letter by letter
MaxBases == 2

(***************************************************************************)
(* Arithmetic helpers                                                      *)
(***************************************************************************)
\* 2^n for n in 0..16
Pow2(n) == <<1, 2, 4, 8, 16, 32, 64, 128, 256, 512, 1024, 2048, 4096, 8192,
            16384, 32768, 65536>>[n + 1]

Min(a, b) == IF a <= b THEN a ELSE b

\* n copies of x
Rep(x, n) == [i \in 1..n |-> x]

\* the sequence s with every element computed, as an array holds it
Stored(s) == s \o <<>>

(***************************************************************************)
(* The compressor object (_VGPcompressor).  Fields that malloc leaves      *)
(* uninitialised and that no call reads before writing them are shown as   *)
(* zero.  lookup is kept as the list of block writes look[base+j] = sym,   *)
(* j < powr, in the order the code makes them; an entry no block covers    *)
(* is uninitialised memory.                                                *)
(***************************************************************************)
ZeroTable == [i \in Byte |-> 0]

\* no compressor (state -1) on a host of endianness big
NoComp(big) == [isbig |-> big, state |-> -1, codebits |-> ZeroTable, codelens |-> ZeroTable,
           lookup |-> <<>>, esc_code |-> 0, hist |-> ZeroTable]

\* _DNAcompressor = { CODED_READ }: the initialiser sets the first member
DNAInit == [isbig |-> CODED_READ, state |-> 0, codebits |-> ZeroTable,
            codelens |-> ZeroTable, lookup |-> <<>>, esc_code |-> 0, hist |-> ZeroTable]

vcCreate(big) == [isbig |-> big, state |-> EMPTY, codebits |-> ZeroTable,
                  codelens |-> ZeroTable, lookup |-> <<>>, esc_code |-> 0,
                  hist |-> ZeroTable]

(***************************************************************************)
(* vcAddToTable: the histogram after counting a buffer.  The buffer is     *)
(* given as runs <<byte, count>>: count consecutive copies of byte.        *)
(***************************************************************************)
RECURSIVE AddRuns(_, _)
AddRuns(hist, runs) ==
  IF runs = <<>> THEN hist
  ELSE AddRuns([hist EXCEPT ![runs[1][1]] = @ + runs[1][2]], Tail(runs))

(***************************************************************************)
(* vcCreateCodec, step 1: the codes in use and the escape code             *)
(***************************************************************************)
\* the loop over i = 0..255 ends with ecode the first byte of count zero when
\* it started negative (partial set), and with ecode as it started otherwise
ECode(hist, partial) ==
  LET zero == {i \in Byte : hist[i] = 0}
  IN  IF -partial < 0 /\ zero # {} THEN CHOOSE i \in zero : \A k \in zero : i <= k
      ELSE -partial

\* the bytes the loop puts in code[]
Codes(hist, partial) ==
  {i \in Byte : hist[i] > 0} \cup
  (IF -partial < 0 /\ ECode(hist, partial) >= 0 THEN {ECode(hist, partial)} ELSE {})

\* the comparator handed to qsort
HSORT(hist, x, y) == hist[x] - hist[y]

\* every order qsort may leave code[] in: any arrangement the comparator accepts
RECURSIVE SortedOrders(_, _)
SortedOrders(hist, S) ==
  IF S = {} THEN {<<>>}
  ELSE LET firsts == {x \in S : \A y \in S : HSORT(hist, x, y) <= 0}
       IN  UNION {{<<x>> \o t : t \in SortedOrders(hist, S \ {x})} : x \in firsts}

SeqRange(s) == {s[i] : i \in 1..Len(s)}

(***************************************************************************)
(* vcCreateCodec, step 2: the coin filter.  One row merges the base coins  *)
(* countb with the pairs of the previous row lcnt[0..llen].                *)
(***************************************************************************)
\* The loop over n is a stable merge of the coins countb[0..ncode) with the
\* pairs lcnt[k] + lcnt[k+1], k = 0, 2, ... < llen, a coin going first on a
\* tie.  countb is sorted by qsort and lcnt is the previous merge, so both are
\* non-decreasing: coin j is written after the pairs of smaller sum and pair
\* p after the coins that are not larger.
MergeRow(countb, lcnt, llen) ==
  LET ncode  == Len(countb)
      npair  == IF llen > 0 THEN (llen + 1) \div 2 ELSE 0
      pair   == Stored([p \in 1..npair |-> lcnt[2 * p - 1] + lcnt[2 * p]])
      coinAt == Stored([j \in 1..ncode |->
                          j + Cardinality({p \in 1..npair : pair[p] < countb[j]})])
      pairAt == Stored([p \in 1..npair |->
                          p + Cardinality({j \in 1..ncode : countb[j] <= pair[p]})])
  IN  [cnt |-> Stored([n \in 1..(ncode + npair) |->
                         IF \E j \in 1..ncode : coinAt[j] = n
                         THEN countb[CHOOSE j \in 1..ncode : coinAt[j] = n]
                         ELSE pair[CHOOSE p \in 1..npair : pairAt[p] = n]]),
       row |-> Stored([n \in 1..(ncode + npair) |->
                         IF \E j \in 1..ncode : coinAt[j] = n THEN 1 ELSE 0])]

\* the loop over L; with no code at all (llen = -1) no row is written
RECURSIVE CoinFilter(_, _, _, _, _)
CoinFilter(countb, lcnt, llen, L, matrix) ==
  IF L <= 0 \/ llen < 0 THEN matrix
  ELSE LET m == MergeRow(countb, lcnt, llen)
       IN  CoinFilter(countb, m.cnt, Len(m.cnt) - 1, L - 1,
                      [matrix EXCEPT ![L] = m.row])

\* matrix[L][n]; a cell the filter never wrote reads as 0
MatAt(row, n) == IF n + 1 <= Len(row) THEN row[n + 1] ELSE 0

(***************************************************************************)
(* vcCreateCodec, step 3: the back trace that yields the code lengths      *)
(***************************************************************************)
\* a back trace that charges the coins of the last level two bits
RECURSIVE BackTraceDeeper(_, _, _, _)
BackTraceDeeper(matrix, L, span, leng) ==
  IF L >= HUFF_CUTOFF \/ leng = <<>>
  THEN [n \in 1..Len(leng) |-> leng[n] + (IF n - 1 < span THEN 2 ELSE 0)]
  ELSE LET j == Cardinality({n \in 0..(span - 1) : MatAt(matrix[L], n) = 1})
       IN  BackTraceDeeper(matrix, L + 1, 2 * (span - j),
                           [n \in 1..Len(leng) |-> leng[n] + (IF n - 1 < j THEN 1 ELSE 0)])

\* the loop over L and the final loop over span; with no code at all there
\* is no length to add to
RECURSIVE BackTrace(_, _, _, _)
BackTrace(matrix, L, span, leng) ==
  IF L >= HUFF_CUTOFF \/ leng = <<>>
  THEN [n \in 1..Len(leng) |-> leng[n] + (IF n - 1 < span THEN 1 ELSE 0)]
  ELSE LET j == Cardinality({n \in 0..(span - 1) : MatAt(matrix[L], n) = 1})
       IN  BackTrace(matrix, L + 1, 2 * (span - j),
                     [n \in 1..Len(leng) |-> leng[n] + (IF n - 1 < j THEN 1 ELSE 0)])

CodeLengths(countb) ==
  LET ncode  == Len(countb)
      matrix == CoinFilter(countb, countb, ncode - 1, HUFF_CUTOFF - 1,
                           [L \in 1..(HUFF_CUTOFF - 1) |-> <<>>])
  IN  BackTrace(matrix, 1, 2 * (ncode - 1), Rep(0, ncode))

(***************************************************************************)
(* vcCreateCodec, step 4: the canonical codes (lbits is a uint16)          *)
(***************************************************************************)
\* the canonical step without the loop that drops trailing zero bits
StripNone(lbits, llen) == [lbits |-> lbits, llen |-> llen]

RECURSIVE Strip(_, _)
Strip(lbits, llen) ==
  IF lbits % 2 = 0 /\ lbits # 0 THEN Strip(lbits \div 2, llen - 1)
  ELSE [lbits |-> lbits, llen |-> llen]

RECURSIVE Extend(_, _, _)
Extend(lbits, llen, want) ==
  IF llen < want THEN Extend((2 * lbits + 1) % 65536, llen + 1, want)
  ELSE [lbits |-> lbits, llen |-> llen]

\* hang: the strip loop is entered with lbits = 0 and never ends
RECURSIVE Canon(_, _, _, _, _)
Canon(leng, n, lbits, llen, bits) ==
  IF n > Len(leng) THEN [bits |-> bits, hang |-> FALSE]
  ELSE LET s == Strip(lbits, llen)
       IN  IF s.lbits = 0 THEN [bits |-> bits, hang |-> TRUE]
           ELSE LET e == Extend(s.lbits - 1, s.llen, leng[n])
                IN  Canon(leng, n + 1, e.lbits, e.llen, Append(bits, e.lbits))

CanonicalCodes(leng) ==
  IF leng = <<>> THEN [bits |-> <<>>, hang |-> FALSE]
  ELSE LET first == (Pow2(leng[1]) - 1) % 65536
       IN  Canon(leng, 2, first, leng[1], <<first>>)

(***************************************************************************)
(* The decoder table: look[base+j] = i for j < powr, for i = 0..255        *)
(***************************************************************************)
\* the members of a set of numbers in increasing order
Ascending(S) ==
  [k \in 1..Cardinality(S) |-> CHOOSE x \in S : Cardinality({y \in S : y < x}) = k - 1]

FillLookup(lens, bitv) ==
  LET syms == Ascending({i \in Byte : lens[i] > 0})
  IN  [k \in 1..Len(syms) |->
         [base |-> (bitv[syms[k]] * Pow2(16 - lens[syms[k]])) % 65536,
          powr |-> Pow2(16 - lens[syms[k]]), sym |-> syms[k]]]

RECURSIVE LookFrom(_, _, _, _)
LookFrom(look, n, p, g) ==
  IF n = 0 THEN g
  ELSE IF look[n].base <= p /\ p < look[n].base + look[n].powr THEN look[n].sym
  ELSE LookFrom(look, n - 1, p, g)

\* look[p]; g is what an entry no block covers holds
LookAt(look, p, g) == LookFrom(look, Len(look), p, g)

(***************************************************************************)
(* vcCreateCodec on a compressor the state checks let through; order is    *)
(* code[] as qsort left it.                                                *)
(***************************************************************************)
IndexOf(s, x) == CHOOSE i \in 1..Len(s) : s[i] = x

BuildCodec(c, partial, order) ==
  LET ecode == ECode(c.hist, partial)
      leng  == CodeLengths([n \in 1..Len(order) |-> c.hist[order[n]]])
      canon == CanonicalCodes(leng)
      used  == SeqRange(order)
      lens  == [i \in Byte |-> IF i \in used THEN leng[IndexOf(order, i)] % 256 ELSE 0]
      bitv  == [i \in Byte |-> IF i \in used /\ IndexOf(order, i) <= Len(canon.bits)
                               THEN canon.bits[IndexOf(order, i)] ELSE 0]
  IN  [comp |-> [c EXCEPT !.codelens = lens, !.codebits = bitv,
                          !.esc_code = IF partial # 0 THEN ecode ELSE -1,
                          !.state = CODED_WITH,
                          !.lookup = FillLookup(lens, bitv)],
       hang |-> canon.hang]

CodeOrders(c, partial) ==
  SortedOrders(c.hist, Codes(c.hist, partial))

(***************************************************************************)
(* Integers in memory: the bytes of an int and of a uint16 in address      *)
(* order on a host of the given endianness (big # 0: most significant      *)
(* byte first).                                                            *)
(***************************************************************************)
Reverse(s) == Stored([i \in 1..Len(s) |-> s[Len(s) + 1 - i]])

\* the four bytes of a 32-bit two's complement int, least significant first
Int32LE(x) ==
  LET m == IF x < 0 THEN -x - 1 ELSE x
      b == <<m % 256, (m \div 256) % 256, (m \div 65536) % 256, (m \div 16777216) % 256>>
  IN  IF x < 0 THEN [i \in 1..4 |-> 255 - b[i]] ELSE b

Int32Bytes(x, big) == IF big # 0 THEN Reverse(Int32LE(x)) ELSE Int32LE(x)

\* the int held by four bytes given least significant first
Int32OfLE(b) ==
  IF b[4] >= 128
  THEN -(1 + (255 - b[1]) + 256 * (255 - b[2]) + 65536 * (255 - b[3])
           + 16777216 * (255 - b[4]))
  ELSE b[1] + 256 * b[2] + 65536 * b[3] + 16777216 * b[4]

Int32Of(b, big) == IF big # 0 THEN Int32OfLE(Reverse(b)) ELSE Int32OfLE(b)

U16Bytes(x, big) ==
  IF big # 0 THEN <<x \div 256, x % 256>> ELSE <<x % 256, x \div 256>>

U16Of(b, big) == IF big # 0 THEN 256 * b[1] + b[2] ELSE 256 * b[2] + b[1]

(***************************************************************************)
(* vcSerialize: the bytes written to out                                   *)
(***************************************************************************)
\* the bytes written for the codes lo..hi
RECURSIVE WriteCodes(_, _, _)
WriteCodes(c, lo, hi) ==
  IF lo = hi
  THEN <<c.codelens[lo]>> \o
       (IF c.codelens[lo] > 0 THEN U16Bytes(c.codebits[lo], c.isbig) ELSE <<>>)
  ELSE WriteCodes(c, lo, (lo + hi) \div 2) \o WriteCodes(c, (lo + hi) \div 2 + 1, hi)

SerializeOut(c) ==
  <<c.isbig % 256>> \o Int32Bytes(c.esc_code, c.isbig) \o WriteCodes(c, 0, 255)

(***************************************************************************)
(* vcDeserialize on a host of endianness big: the compressor made, and the *)
(* input buffer as the call leaves it (FLIP32 and FLIP16 swap in place).   *)
(***************************************************************************)
\* the loop over the codes lo..hi, reading from offset r.ip of r.mem
RECURSIVE ReadCodes(_, _, _, _, _)
ReadCodes(r, lo, hi, flip, big) ==
  IF lo = hi
  THEN IF r.mem[r.ip] > 0
       THEN LET m2 == IF flip THEN [r.mem EXCEPT ![r.ip + 1] = r.mem[r.ip + 2],
                                                 ![r.ip + 2] = r.mem[r.ip + 1]]
                      ELSE r.mem
            IN  [mem |-> m2, ip |-> r.ip + 3,
                 lens |-> [r.lens EXCEPT ![lo] = r.mem[r.ip]],
                 bits |-> [r.bits EXCEPT ![lo] = U16Of(<<m2[r.ip + 1], m2[r.ip + 2]>>, big)]]
       ELSE [mem |-> r.mem, ip |-> r.ip + 1,
             lens |-> [r.lens EXCEPT ![lo] = 0], bits |-> [r.bits EXCEPT ![lo] = 0]]
  ELSE LET half == ReadCodes(r, lo, (lo + hi) \div 2, flip, big)
       IN  IF half.ip > r.ip THEN ReadCodes(half, (lo + hi) \div 2 + 1, hi, flip, big)
           ELSE half

Deserialize(in, big) ==
  LET flip == (big # in[1])
      m1   == IF flip THEN [in EXCEPT ![2] = in[5], ![3] = in[4],
                                      ![4] = in[3], ![5] = in[2]]
              ELSE in
      esc  == Int32Of(SubSeq(m1, 2, 5), big)
      r    == ReadCodes([mem |-> m1, ip |-> 6, lens |-> ZeroTable, bits |-> ZeroTable],
                        0, 255, flip, big)
  IN  [comp |-> [isbig |-> big, state |-> CODED_READ, codebits |-> r.bits,
                 codelens |-> r.lens, lookup |-> FillLookup(r.lens, r.bits),
                 esc_code |-> esc, hist |-> ZeroTable],
       mem  |-> r.mem]

(***************************************************************************)
(* 64-bit words: sequences of 64 bits, bit 63 first.  A shift whose count  *)
(* is outside 0..63 is undefined in C: ub names what the build makes of    *)
(* it, "mask" (the count taken modulo 64) or "zero" (all bits shifted      *)
(* out).                                                                   *)
(***************************************************************************)
Zero64 == Rep(0, 64)

Bits(x, n) == Stored([i \in 1..n |-> (x \div Pow2(n - i)) % 2])

\* the number a sequence of at most 16 bits spells, first bit most significant
RECURSIVE BitsFrom(_, _, _)
BitsFrom(b, i, acc) == IF i > Len(b) THEN acc ELSE BitsFrom(b, i + 1, 2 * acc + b[i])

BitsVal(b) == BitsFrom(b, 1, 0)

\* a value below 2^16 as a uint64
Word(x) == Rep(0, 48) \o Bits(x, 16)

Or(a, b) == Stored([i \in 1..Len(a) |-> IF a[i] = 1 \/ b[i] = 1 THEN 1 ELSE 0])

ShiftCount(n, ub) == IF n \in 0..63 THEN n ELSE IF ub = "mask" THEN n % 64 ELSE 64

Shl(wd, n, ub) ==
  LET k == ShiftCount(n, ub)
  IN  Stored([i \in 1..64 |-> IF i + k <= 64 THEN wd[i + k] ELSE 0])

Shr(wd, n, ub) ==
  LET k == ShiftCount(n, ub)
  IN  Stored([i \in 1..64 |-> IF i - k >= 1 THEN wd[i - k] ELSE 0])

\* the eight bytes of a word, most significant first, and back
WordBytes(wd) == Stored([k \in 1..8 |-> BitsVal(SubSeq(wd, 8 * k - 7, 8 * k))])

BytesWord(b) == Stored([i \in 1..64 |-> Bits(b[(i + 7) \div 8], 8)[((i - 1) % 8) + 1]])

\* a uint64 as the host keeps it in memory, and as the host reads it
Store64(wd, big) == IF big # 0 THEN WordBytes(wd) ELSE Reverse(WordBytes(wd))

Load64(b, big) == IF big # 0 THEN BytesWord(b) ELSE BytesWord(Reverse(b))

\* the byte at offset i of a buffer; past its end the memory holds g
MemAt(mem, i, g) == IF i + 1 <= Len(mem) THEN mem[i + 1] ELSE g

MemRange(mem, i, n, g) == Stored([k \in 1..n |-> MemAt(mem, i + k - 1, g)])

(***************************************************************************)
(* Reads before the start of codelens[] and codebits[], which the encoder  *)
(* makes for esc = -1: by the layout of _VGPcompressor codelens[-1] is the *)
(* last byte of codebits[255] and codebits[-1] the second half of state.   *)
(***************************************************************************)
ClensAt(c, i) ==
  IF i >= 0 THEN c.codelens[i]
  ELSE IF c.isbig # 0 THEN c.codebits[255] % 256 ELSE c.codebits[255] \div 256

CbitsAt(c, i) ==
  IF i >= 0 THEN c.codebits[i]
  ELSE IF c.isbig # 0 THEN c.state ELSE 0

(***************************************************************************)
(* vcEncode.  e is the encoder's running state: the words stored through   *)
(* ob, ocode, rem and tbits.                                               *)
(***************************************************************************)
OCODE(e, L, C, ub) ==
  LET rem == e.rem - L
  IN  IF rem <= 0
      THEN LET full == Or(e.ocode, Shr(C, -rem, ub))
           IN  IF rem < 0
               THEN [e EXCEPT !.ob = Append(@, full), !.rem = rem + 64,
                              !.ocode = Shl(C, rem + 64, ub)]
               ELSE [e EXCEPT !.ob = Append(@, full), !.rem = 64, !.ocode = Zero64]
      ELSE [e EXCEPT !.rem = rem, !.ocode = Or(@, Shl(C, rem, ub))]

\* an overflow test that lets through a stream up to a byte longer than the input
OverflowsByAByte(tbits, ibits) == tbits > ibits + 8

\* the overflow test of the loop
Overflows(tbits, ibits) == tbits > ibits

\* the loop over ibytes; k is the index it stops at (Len(x) when it ran through)
RECURSIVE EncodeLoop(_, _, _, _, _)
EncodeLoop(c, x, k, e, ub) ==
  IF k >= Len(x) THEN [e EXCEPT !.k = k]
  ELSE LET b == x[k + 1]
           n == c.codelens[b]
       IN  IF n = 0
           THEN LET ne == ClensAt(c, c.esc_code)
                    tb == e.tbits + 8 + ne
                IN  IF Overflows(tb, 8 * Len(x)) THEN [e EXCEPT !.k = k, !.tbits = tb]
                    ELSE EncodeLoop(c, x, k + 1,
                           OCODE(OCODE([e EXCEPT !.tbits = tb], ne,
                                       Word(CbitsAt(c, c.esc_code)), ub),
                                 8, Word(b), ub), ub)
           ELSE LET tb == e.tbits + n
                IN  IF Overflows(tb, 8 * Len(x)) THEN [e EXCEPT !.k = k, !.tbits = tb]
                    ELSE EncodeLoop(c, x, k + 1,
                           OCODE([e EXCEPT !.tbits = tb], n, Word(c.codebits[b]), ub), ub)

RECURSIVE Flatten(_)
Flatten(ss) == IF ss = <<>> THEN <<>> ELSE ss[1] \o Flatten(Tail(ss))

\* what vcEncode leaves in obytes and the bit count it returns
Encode(c, x, ub) ==
  LET e0 == [ob |-> <<>>, rem |-> 62, tbits |-> 2, k |-> 0,
             ocode |-> IF c.isbig # 0 THEN <<0, 1>> \o Rep(0, 62) ELSE Zero64]
      e  == EncodeLoop(c, x, 0, e0, ub)
  IN  IF e.k < Len(x) THEN [mem |-> <<255>> \o x, ret |-> 8 * Len(x) + 8]
      ELSE LET cnt   == IF c.isbig # 0 THEN (71 - e.rem) \div 8
                        ELSE 8 - (7 - ((63 - e.rem) \div 8))
               words == Flatten([i \in 1..Len(e.ob) |-> Store64(e.ob[i], c.isbig)])
               mem   == words \o SubSeq(WordBytes(e.ocode), 1, cnt)
           IN  IF e.tbits >= 64 /\ c.isbig = 0
               THEN [mem |-> Store64(Shl(Load64(SubSeq(mem, 1, 8), 0), 2, ub), 0)
                               \o SubSeq(mem, 9, Len(mem)),
                     ret |-> e.tbits]
               ELSE [mem |-> mem, ret |-> e.tbits]

(***************************************************************************)
(* vcDecode.  d is the decoder's running state: ilen, icode, rem, ncode,   *)
(* nem and p (the offset of the next word to fetch); mem is ibytes, g what *)
(* memory past the buffer and uninitialised lookup entries hold.           *)
(***************************************************************************)
\* up to eight bytes from offset p on, packed from bit 63 down (k = 0, 8, ... < nbits)
PackBytes(mem, p, nbits, g) ==
  Stored([i \in 1..64 |-> IF i <= 8 * ((nbits + 7) \div 8)
                          THEN Bits(MemAt(mem, p + (i - 1) \div 8, g), 8)[((i - 1) % 8) + 1]
                          ELSE 0])

\* the while (rem < 16) loop of GET
RECURSIVE Refill(_, _, _, _, _)
Refill(d, mem, big, ub, g) ==
  IF d.rem >= 16 THEN d
  ELSE LET z  == 64 - d.rem
           ic == Or(d.icode, Shr(d.ncode, d.rem, ub))
       IN  IF d.nem > z
           THEN [d EXCEPT !.icode = ic, !.nem = d.nem - z,
                          !.ncode = Shl(d.ncode, z, ub), !.rem = 64]
           ELSE LET rem == d.rem + d.nem
                IN  IF rem >= d.ilen THEN [d EXCEPT !.icode = ic, !.rem = rem]
                    ELSE IF d.ilen - rem < 64
                    THEN Refill([d EXCEPT !.icode = ic, !.rem = rem,
                                          !.nem = d.ilen - rem,
                                          !.ncode = PackBytes(mem, d.p, d.ilen - rem, g)],
                                mem, big, ub, g)
                    ELSE Refill([d EXCEPT !.icode = ic, !.rem = rem, !.nem = 64,
                                          !.ncode = Load64(MemRange(mem, d.p, 8, g), big),
                                          !.p = d.p + 8],
                                mem, big, ub, g)

GET(d, n, mem, big, ub, g) ==
  Refill([d EXCEPT !.ilen = @ - n, !.icode = Shl(@, n, ub), !.rem = @ - n],
         mem, big, ub, g)

\* the char index c of lens[c] (coded symbols are below 128, where signed
\* and unsigned char agree; above, either build finds a zero)
LensAtChar(c, ch) == c.codelens[ch]

\* the decoding loop; o is obytes so far.  A symbol of length 0 that is not
\* the escape consumes nothing: the loop then stores without end ("overrun").
RECURSIVE DecodeLoop(_, _, _, _, _, _)
DecodeLoop(c, d, o, mem, ub, g) ==
  IF d.ilen <= 0 THEN [out |-> o, status |-> "ok"]
  ELSE LET ch == LookAt(c.lookup, BitsVal(SubSeq(d.icode, 1, 16)), g)
           n  == LensAtChar(c, ch)
           d1 == GET(d, n, mem, c.isbig, ub, g)
       IN  IF ch = c.esc_code % 256
           THEN DecodeLoop(c, GET(d1, 8, mem, c.isbig, ub, g),
                           Append(o, BitsVal(SubSeq(d1.icode, 1, 8))), mem, ub, g)
           ELSE IF n = 0 THEN [out |-> o, status |-> "overrun"]
           ELSE DecodeLoop(c, d1, Append(o, ch), mem, ub, g)

\* FLIP64 of every complete word of the first ilen bits
FlipWords(mem, ilen, g) ==
  Stored([i \in 1..Len(mem) |->
            IF (i - 1) \div 8 < ilen \div 64
            THEN MemAt(mem, 8 * ((i - 1) \div 8) + 7 - ((i - 1) % 8), g)
            ELSE mem[i]])

\* inbig = (*ibytes & 0x40): bit 6 of the first byte in memory
InBig(mem) == IF (mem[1] \div 64) % 2 = 1 THEN 64 ELSE 0

\* the test that sends vcDecode into the loop of FLIP64
Flips(c, mem) == InBig(mem) # c.isbig

\* ibytes as vcDecode leaves it: the first word shifted, the words flipped
DecodeMem(c, ilen, mem, ub, g) ==
  LET inbig == InBig(mem)
      m1    == IF inbig = 0 /\ ilen >= 64
               THEN Store64(Shr(Load64(MemRange(mem, 0, 8, g), c.isbig), 2, ub), c.isbig)
                      \o SubSeq(mem, 9, Len(mem))
               ELSE mem
  IN  IF Flips(c, mem) THEN FlipWords(m1, ilen, g) ELSE m1

\* what vcDecode returns and writes for a compressor with a codec
Decode(c, ilen, mem, ub, g) ==
  IF mem[1] = 255
  THEN LET olen == (ilen \div 8) - 1
       IN  IF olen < 0 THEN [out |-> <<>>, ret |-> olen, mem |-> mem, status |-> "fault"]
           ELSE [out |-> MemRange(mem, 1, olen, g), ret |-> olen, mem |-> mem,
                 status |-> "ok"]
  ELSE LET m  == DecodeMem(c, ilen, mem, ub, g)
           ic == IF ilen < 64 THEN PackBytes(m, 0, ilen, g)
                 ELSE Load64(MemRange(m, 0, 8, g), c.isbig)
           d0 == [ilen |-> ilen - 2, icode |-> Shl(ic, 2, ub),
                  rem |-> Min(62, ilen - 2), ncode |-> Zero64, nem |-> 0,
                  p |-> IF ilen < 64 THEN 0 ELSE 8]
           r  == DecodeLoop(c, d0, <<>>, m, ub, g)
       IN  [out |-> r.out, ret |-> Len(r.out), mem |-> m, status |-> r.status]

(***************************************************************************)
(* The DNA path                                                            *)
(***************************************************************************)
\* Number[ch]; the table has 128 entries, g is what lies beyond it
Number(ch, g) ==
  IF ch >= 128 THEN g
  ELSE IF ch \in {67, 99} THEN 1
  ELSE IF ch \in {71, 103} THEN 2
  ELSE IF ch \in {84, 116} THEN 3
  ELSE 0

Base == <<97, 99, 103, 116>>

\* the char (a << sh), a an entry of Number, keeps of the shifted int
ShlByte(a, sh) == (a * Pow2(sh)) % 256

Or8(a, b) == BitsVal(Or(Bits(a, 8), Bits(b, 8)))

\* the byte packed from the bases s[i+1..i+m], m <= 4
Pack4(s, i, m, g) ==
  LET t(q) == IF q <= m THEN ShlByte(Number(s[i + q], g), 8 - 2 * q) ELSE 0
  IN  Or8(Or8(t(1), t(2)), Or8(t(3), t(4)))

RECURSIVE CompressLoop(_, _, _, _, _)
CompressLoop(s, len, i, t, g) ==
  IF i < len THEN CompressLoop(s, len, i + 4, Append(t, Pack4(s, i, 4, g)), g)
  ELSE IF i - len \in 0..2 THEN Append(t, Pack4(s, i, 3 - (i - len), g))
  ELSE t

\* what Compress_DNA writes to t and the value it returns
Compress_DNA(s, g) ==
  LET t == CompressLoop(s, Len(s) - 3, 0, <<>>, g)
  IN  [mem |-> t, ret |-> 2 * Len(t)]

\* what Uncompress_DNA writes to t: len bases from the bytes of s
Uncompress_DNA(s, len, g) ==
  LET tlen == len - 3
      done == IF tlen > 0 THEN 4 * ((tlen + 3) \div 4) ELSE 0
      more == IF done - tlen \in 0..2 THEN 3 - (done - tlen) ELSE 0
  IN  [out |-> [i \in 1..(done + more) |->
                  Base[((MemAt(s, (i - 1) \div 4, g) \div Pow2(6 - 2 * ((i - 1) % 4))) % 4) + 1]],
       ret |-> len]

(***************************************************************************)
(* The inputs explored                                                     *)
(***************************************************************************)
\* a geometric histogram over n letters from 'a': counts 1, 1, 2, 4, ...
Geometric(n) == [i \in 1..n |-> <<96 + i, IF i = 1 THEN 1 ELSE Pow2(i - 2)>>]

\* a histogram over n <= 16 letters from 'A' whose counts grow as slowly as
\* a code of depth n - 1 allows: 1, 2, 3, 5, 8, ...
Fibonacci(n) ==
  [i \in 1..n |-> <<64 + i, <<1, 2, 3, 5, 8, 13, 21, 34, 55, 89, 144, 233, 377,
                              610, 987, 1597>>[i]>>]

\* buffers handed to vcAddToTable, as runs (bytes[i] indexes hist[] as a char:
\* the samples stay below 128, where signed and unsigned char agree)
Samples ==
  { <<>>,
    << <<97, 1>> >>,
    << <<97, 2>>, <<98, 1>> >>,
    << <<97, 1>>, <<99, 1>>, <<103, 1>>, <<116, 5>> >>,
    Geometric(HUFF_CUTOFF + 2),
    Fibonacci(HUFF_CUTOFF + 4) }

ShortSamples == { <<>>, << <<97, 2>>, <<98, 1>> >> }

SerialSamples ==
  { <<>>, << <<97, 1>> >>, << <<97, 2>>, <<98, 1>> >>, Geometric(HUFF_CUTOFF + 2) }

CodingSamples == { << <<97, 2>>, <<98, 1>> >>, Geometric(HUFF_CUTOFF + 2) }

\* buffers handed to vcEncode
ShortInputs == { <<97>> }

Inputs ==
  { <<>>, <<97>>, <<98, 97>>, <<200>>, <<97, 255, 97>>,
    Rep(200, 6) \o Rep(97, 2),
    Rep(97, MaxRun), Rep(98, MaxRun) \o Rep(116, MaxRun),
    Rep(97, 5) \o Rep(110, 4), Rep(97, 5) \o Rep(110, MaxRun) }

\* buffers handed to vcEncode with the DNA compressor: the sequences of up to
\* MaxBases bytes over a few letters, and a longer one
DNALetters == {65, 99, 71, 116, 78, 200}

DNAInputs ==
  UNION {[1..n -> DNALetters] : n \in 0..MaxBases}
    \cup { <<65, 67, 71, 84, 65, 67, 71, 84, 65, 67>> }

\* buffers and bit counts handed to vcDecode that no vcEncode of the process
\* wrote (read from a file, say): arbitrary bits, short and longer than a word
Streams ==
  { [mem |-> <<0>>, bits |-> 8],
    [mem |-> <<85, 170>>, bits |-> 13],
    [mem |-> <<255, 97, 98>>, bits |-> 24],
    [mem |-> <<21>> \o Rep(170, 8), bits |-> 70] }

\* histograms of the decoding client
DecodeSamples == { <<>>, << <<97, 1>> >>, << <<97, 2>>, <<98, 1>> >> }

\* what a shift by an out-of-range count gives, and what uninitialised or
\* out-of-bounds memory holds
ShiftBuilds == {"mask", "zero"}
Garbage == {0, 255}

(***************************************************************************)
(* The API calls.  A call that reports a state violation prints and calls  *)
(* exit(1): the process ends with every object as it was.                  *)
(***************************************************************************)
Handles == {"v", "w", "dna"}

Comp(h) == IF h = "v" THEN v ELSE IF h = "w" THEN w ELSE dna

Exists(h) == Comp(h).state >= 0

SetComp(h, c) ==
  /\ v' = IF h = "v" THEN c ELSE v
  /\ w' = IF h = "w" THEN c ELSE w
  /\ dna' = IF h = "dna" THEN c ELSE dna

\* the call at which the process stopped, none while it runs
NoCall == [op |-> "none", h |-> "none"]

Returns ==
  /\ call' = NoCall
  /\ pc' = "run"

Exits(op, h) ==
  /\ call' = [op |-> op, h |-> h]
  /\ pc' = "exit"
  /\ UNCHANGED <<v, w, dna, blob, io, nadd>>

NoIO == [in |-> <<>>, mem |-> <<>>, bits |-> 0, enc |-> "none",
         out |-> <<>>, ret |-> 0, dec |-> "none", ndec |-> 0, status |-> "none"]

\* vcAddToTable: the state check, and the compressor after the call
AddRejects(c) == c.state >= CODED_WITH

\* vcAddToTable without the assignment to state of line 135
AddToTableNoState(c, runs) == [c EXCEPT !.hist = AddRuns(@, runs)]

AddToTable(c, runs) == [c EXCEPT !.hist = AddRuns(@, runs), !.state = FILLED]

vcAddToTable(h, runs) ==
  /\ pc = "run" /\ Exists(h)
  /\ IF AddRejects(Comp(h)) THEN Exits("add", h)
     ELSE /\ nadd[h] < MaxAdds
          /\ SetComp(h, AddToTable(Comp(h), runs))
          /\ nadd' = [nadd EXCEPT ![h] = @ + 1]
          /\ Returns
          /\ UNCHANGED <<blob, io>>

\* vcCreateCodec: the two state checks
CodecRejects(c) == c.state >= CODED_WITH \/ c.state = EMPTY

vcCreateCodec(h, partial) ==
  /\ pc = "run" /\ Exists(h)
  /\ IF CodecRejects(Comp(h)) THEN Exits("codec", h)
     ELSE \E order \in CodeOrders(Comp(h), partial) :
            LET r == BuildCodec(Comp(h), partial, order)
            IN  /\ SetComp(h, r.comp)
                /\ call' = IF r.hang THEN [op |-> "codec", h |-> h] ELSE NoCall
                /\ pc' = IF r.hang THEN "hang" ELSE "run"
                /\ UNCHANGED <<blob, io, nadd>>

\* vcSerialize
SerializeRejects(c) == c.state < CODED_WITH

vcSerialize(h) ==
  /\ pc = "run" /\ Exists(h)
  /\ IF h = "dna" THEN Returns /\ UNCHANGED <<v, w, dna, blob, io, nadd>>
     ELSE IF SerializeRejects(Comp(h)) THEN Exits("serialize", h)
     ELSE /\ blob' = SerializeOut(Comp(h))
          /\ Returns
          /\ UNCHANGED <<v, w, dna, io, nadd>>

\* vcDeserialize of the serialised buffer on the reader's host
vcDeserialize ==
  /\ pc = "run" /\ blob # <<>>
  /\ LET r == Deserialize(blob, w.isbig)
     IN  /\ w' = r.comp
         /\ blob' = r.mem
  /\ Returns
  /\ UNCHANGED <<v, dna, io, nadd>>

\* vcDestroy: free, except for the DNA compressor
vcDestroy(h) ==
  /\ pc = "run" /\ Exists(h)
  /\ SetComp(h, IF h = "dna" THEN dna ELSE NoComp(Comp(h).isbig))
  /\ Returns
  /\ UNCHANGED <<blob, io, nadd>>

\* vcEncode
EncodeRejects(c) == c.state < CODED_WITH

vcEncode(h, x) ==
  /\ pc = "run" /\ Exists(h)
  /\ IF h = "dna"
     THEN \E g \in Garbage :
            LET r == Compress_DNA(x, g)
            IN  /\ io' = [NoIO EXCEPT !.in = x, !.mem = r.mem, !.bits = r.ret, !.enc = h]
                /\ Returns
                /\ UNCHANGED <<v, w, dna, blob, nadd>>
     ELSE IF EncodeRejects(Comp(h)) THEN Exits("encode", h)
     ELSE \E ub \in ShiftBuilds :
            LET r == Encode(Comp(h), x, ub)
            IN  /\ io' = [NoIO EXCEPT !.in = x, !.mem = r.mem, !.bits = r.ret, !.enc = h]
                /\ Returns
                /\ UNCHANGED <<v, w, dna, blob, nadd>>

\* vcDecode of the encoded buffer with the bit count vcEncode returned
\* the state check of vcDecode letting a filled histogram through
DecodeRejectsEmpty(c) == c.state < FILLED

DecodeRejects(c) == c.state < CODED_WITH

vcDecode(h) ==
  /\ pc = "run" /\ Exists(h)
  /\ io.enc # "none" /\ io.mem # <<>>
  /\ IF h = "dna"
     THEN \E g \in Garbage :
            LET r == Uncompress_DNA(io.mem, io.bits \div 2, g)
            IN  /\ io.ndec < MaxDecodes
                /\ io' = [io EXCEPT !.out = r.out, !.ret = r.ret, !.dec = h,
                                    !.ndec = @ + 1, !.status = "ok"]
                /\ Returns
                /\ UNCHANGED <<v, w, dna, blob, nadd>>
     ELSE IF DecodeRejects(Comp(h)) THEN Exits("decode", h)
     ELSE \E ub \in ShiftBuilds, g \in Garbage :
            LET r == Decode(Comp(h), io.bits, io.mem, ub, g)
            IN  /\ io.ndec < MaxDecodes
                /\ io' = [io EXCEPT !.mem = r.mem, !.out = r.out, !.ret = r.ret,
                                    !.dec = h, !.ndec = @ + 1, !.status = r.status]
                /\ call' = IF r.status = "ok" THEN NoCall ELSE [op |-> "decode", h |-> h]
                /\ pc' = IF r.status = "ok" THEN "run" ELSE "crash"
                /\ UNCHANGED <<v, w, dna, blob, nadd>>

(***************************************************************************)
(* The specification: the process after vcCreate on a host of either       *)
(* endianness, a reader's host of either endianness, and any sequence of   *)
(* API calls.                                                              *)
(***************************************************************************)
Init ==
  /\ \E big \in {0, 1} : v = vcCreate(big)
  /\ \E big \in {0, 1} : w = NoComp(big)
  /\ dna = DNAInit
  /\ blob = <<>>
  /\ io = NoIO
  /\ call = NoCall
  /\ nadd = [h \in Handles |-> 0]
  /\ pc = "run"

\* a client running through the whole API: tables, codecs, serialised
\* codecs read back on either kind of host, encoding and decoding
Next ==
  \/ \E h \in {"v", "w"}, runs \in ShortSamples : vcAddToTable(h, runs)
  \/ \E h \in {"v", "w"}, partial \in {0, 1} : vcCreateCodec(h, partial)
  \/ \E h \in Handles : vcSerialize(h)
  \/ vcDeserialize
  \/ \E h \in Handles : vcDestroy(h)
  \/ \E h \in Handles, x \in ShortInputs : vcEncode(h, x)
  \/ \E h \in Handles : vcDecode(h)

Spec == Init /\ [][Next]_vars

\* a client that fills a table and builds a codec
NextCodec ==
  \/ \E runs \in Samples : vcAddToTable("v", runs)
  \/ \E partial \in {0, 1} : vcCreateCodec("v", partial)

SpecCodec == Init /\ [][NextCodec]_vars

\* a client that builds a codec, serialises it and reads it back
NextSerial ==
  \/ \E runs \in SerialSamples : vcAddToTable("v", runs)
  \/ \E partial \in {0, 1} : vcCreateCodec("v", partial)
  \/ \E h \in {"v", "w"} : vcSerialize(h)
  \/ vcDeserialize

SpecSerial == Init /\ [][NextSerial]_vars

\* a client that builds a codec and encodes and decodes with it
NextCoding ==
  \/ \E runs \in CodingSamples : vcAddToTable("v", runs)
  \/ \E partial \in {0, 1} : vcCreateCodec("v", partial)
  \/ \E x \in Inputs : vcEncode("v", x)
  \/ vcDecode("v")

SpecCoding == Init /\ [][NextCoding]_vars

\* a client that encodes and decodes with the DNA compressor
NextDNA ==
  \/ \E x \in DNAInputs : vcEncode("dna", x)
  \/ vcDecode("dna")

SpecDNA == Init /\ [][NextDNA]_vars

\* a client that hands the DNA compressor to every call of the API
NextSingleton ==
  \/ \E runs \in ShortSamples : vcAddToTable("dna", runs)
  \/ \E partial \in {0, 1} : vcCreateCodec("dna", partial)
  \/ vcSerialize("dna")
  \/ vcDestroy("dna")
  \/ \E x \in ShortInputs \cup {<<65, 99>>} : vcEncode("dna", x)
  \/ vcDecode("dna")

SpecSingleton == Init /\ [][NextSingleton]_vars

\* the caller fills ibytes from elsewhere and sets the bit count
Receive(st) ==
  /\ pc = "run"
  /\ io' = [NoIO EXCEPT !.mem = st.mem, !.bits = st.bits, !.enc = "caller"]
  /\ Returns
  /\ UNCHANGED <<v, w, dna, blob, nadd>>

\* a client that builds a codec and decodes streams it was given
NextDecode ==
  \/ \E runs \in DecodeSamples : vcAddToTable("v", runs)
  \/ \E partial \in {0, 1} : vcCreateCodec("v", partial)
  \/ \E st \in Streams : Receive(st)
  \/ vcDecode("v")

SpecDecode == Init /\ [][NextDecode]_vars

(***************************************************************************)
(* Properties.                                                             *)
(***************************************************************************)
Coded(c) == c.state >= CODED_WITH

\* every byte of x has a code in c
Representable(c, x) == \A i \in 1..Len(x) : c.codelens[x[i]] > 0

\* h has just decoded, for the first time, the buffer h encoded
Decoded(h) == Exists(h) /\ io.enc = h /\ io.dec = h /\ io.ndec = 1

\* C1: decoding what a coded compressor encoded, with the bit count encode
\* returned, gives back the input, when every input byte has a code or the
\* codec was built with partial = true
C1_RoundTrip ==
  Decoded("v") /\ (Representable(v, io.in) \/ v.esc_code >= 0)
    => io.status = "ok" /\ io.ret = Len(io.in) /\ io.out = io.in

\* C2: a created compressor starts Empty; a vcAddToTable that returns moves
\* Empty or Filled to Filled; a vcCreateCodec that returns moves Filled to
\* CodedWithHistogram; vcDeserialize makes a compressor in
\* CodedFromDeserialised; and a compressor in a Coded state keeps that state
\* under every call for as long as it exists
C2_Step ==
  /\ \A h \in {"v", "w"}, runs \in ShortSamples :
       vcAddToTable(h, runs) /\ pc' = "run"
         => Comp(h).state \in {EMPTY, FILLED} /\ Comp(h)'.state = FILLED
  /\ \A h \in {"v", "w"}, partial \in {0, 1} :
       vcCreateCodec(h, partial) /\ pc' = "run"
         => Comp(h).state = FILLED /\ Comp(h)'.state = CODED_WITH
  /\ vcDeserialize => w'.state = CODED_READ
  /\ \A h \in Handles :
       Coded(Comp(h)) /\ Exists(h)' => Comp(h)'.state = Comp(h).state

C2_Lifecycle == v.state = EMPTY /\ [][C2_Step]_vars

\* a coded compressor and one read from its serialisation, after both encoded
\* and decoded
C2_Witness ==
  /\ v.state = CODED_WITH /\ w.state = CODED_READ
  /\ io.enc = "w" /\ io.dec = "v" /\ nadd["v"] = MaxAdds

\* C3: vcAddToTable fails in both Coded states, vcCreateCodec in every state
\* but Filled, and vcEncode, vcDecode and vcSerialize of a compressor other
\* than the DNA one in Empty and Filled; the failing call leaves histogram,
\* code tables, escape and state (the whole compressor) as they were
C3_Fails(op, h) ==
  /\ pc' = "exit" /\ call' = [op |-> op, h |-> h]
  /\ v' = v /\ w' = w /\ dna' = dna

C3_Step ==
  \A h \in {"v", "w"} :
    LET st == Comp(h).state
    IN  /\ \A runs \in ShortSamples :
             vcAddToTable(h, runs) /\ st \in {CODED_WITH, CODED_READ} => C3_Fails("add", h)
        /\ \A partial \in {0, 1} :
             vcCreateCodec(h, partial) /\ st # FILLED => C3_Fails("codec", h)
        /\ \A x \in ShortInputs :
             vcEncode(h, x) /\ st \in {EMPTY, FILLED} => C3_Fails("encode", h)
        /\ vcDecode(h) /\ st \in {EMPTY, FILLED} => C3_Fails("decode", h)
        /\ vcSerialize(h) /\ st \in {EMPTY, FILLED} => C3_Fails("serialize", h)

C3_StateViolations == [][C3_Step]_vars

\* vcDecode was called on a compressor with a filled histogram and no codec
C3_Witness ==
  /\ pc = "exit" /\ call = [op |-> "decode", h |-> "v"]
  /\ v.state = FILLED /\ nadd["v"] = MaxAdds

\* the 16-bit prefixes at which the lookup tables of c and d can change value
Probes(c, d) ==
  {0, 65535}
    \cup UNION {{c.lookup[k].base, c.lookup[k].base + c.lookup[k].powr - 1} : k \in 1..Len(c.lookup)}
    \cup UNION {{d.lookup[k].base, d.lookup[k].base + d.lookup[k].powr - 1} : k \in 1..Len(d.lookup)}

SameCodes(c, d) ==
  /\ d.state = CODED_READ
  /\ d.codelens = c.codelens /\ d.codebits = c.codebits /\ d.esc_code = c.esc_code

\* the lookup entries are equal whatever the entries never written hold
SameLookup(c, d) ==
  \A p \in Probes(c, d), g1 \in Garbage, g2 \in Garbage :
    LookAt(c.lookup, p, g1) = LookAt(d.lookup, p, g2)

\* C4: vcDeserialize of what vcSerialize wrote for a coded compressor gives a
\* compressor in CodedFromDeserialised with the same length and bits of every
\* byte, the same escape and the same lookup entry for every 16-bit prefix,
\* on a reader of either endianness
C4_SerialRoundTrip ==
  [][\A h \in {"v", "w"} :
       vcDeserialize /\ Exists(h) /\ Coded(Comp(h)) /\ blob = SerializeOut(Comp(h))
         => SameCodes(Comp(h), w') /\ SameLookup(Comp(h), w')]_vars

\* the part of C4 that holds: lengths, bits and escape are the same, and so
\* is the lookup entry of every prefix that starts with a code word
C4_CodesRoundTrip ==
  [][\A h \in {"v", "w"} :
       vcDeserialize /\ Exists(h) /\ Coded(Comp(h)) /\ blob = SerializeOut(Comp(h))
         => SameCodes(Comp(h), w') /\ w'.lookup = Comp(h).lookup]_vars

\* the bits the encoder counts for byte b: its code, or the escape code and
\* the 8-bit literal
CodeWidth(c, b) ==
  IF c.codelens[b] > 0 THEN c.codelens[b] ELSE 8 + ClensAt(c, c.esc_code)

\* the compressed bit count of x: the 2-bit tag and the width of every byte
RECURSIVE CompressedBits(_, _)
CompressedBits(c, x) ==
  IF x = <<>> THEN 2 ELSE CodeWidth(c, x[1]) + CompressedBits(c, Tail(x))

\* the overflow fallback was taken on io.in, and a decode by h returned io.in
FellBack(h) ==
  /\ io.bits = 8 * (Len(io.in) + 1)
  /\ io.mem = <<255>> \o io.in
  /\ io.dec = h => io.status = "ok" /\ io.ret = Len(io.in) /\ io.out = io.in

\* C5: when the compressed bit count of the n input bytes equals or exceeds
\* 8n, vcEncode returns 8(n+1) and writes 0xFF and the input verbatim, and
\* vcDecode of that output returns the input
C5_Overflow ==
  io.enc = "v" /\ Exists("v") /\ CompressedBits(v, io.in) >= 8 * Len(io.in)
    => FellBack("v")

\* C5 as the encoder decides it: for n >= 1 input bytes, each with a code or
\* with an escape configured, the fallback is taken when the compressed bit
\* count strictly exceeds 8n
C5_OverflowStrict ==
  (/\ io.enc = "v" /\ Exists("v") /\ Len(io.in) >= 1
   /\ Representable(v, io.in) \/ v.esc_code >= 0
   /\ CompressedBits(v, io.in) > 8 * Len(io.in))
    => FellBack("v")

\* a run of a byte whose 12-bit code makes the stream longer than the input
\* fell back and was decoded
C5_Witness ==
  /\ io.enc = "v" /\ io.dec = "v" /\ io.in = Rep(97, MaxRun)
  /\ v.codelens[97] = HUFF_CUTOFF
  /\ io.bits = 8 * (MaxRun + 1) /\ io.out = io.in

\* the letter the DNA path is to give back for input byte b
Lower(b) ==
  IF b \in {67, 99} THEN 99
  ELSE IF b \in {71, 103} THEN 103
  ELSE IF b \in {84, 116} THEN 116
  ELSE 97

\* C6: decoding with the DNA compressor what it encoded from n bytes, with
\* the bit count vcEncode returned, gives n bytes: the lowercase letter of
\* each of A, C, G, T, a, c, g, t and 'a' for every other byte
C6_DNARoundTrip ==
  io.enc = "dna" /\ io.dec = "dna"
    => /\ io.ret = Len(io.in)
       /\ io.out = [i \in 1..Len(io.in) |-> Lower(io.in[i])]

\* C7: vcEncode of n bytes with the DNA compressor returns 2n
C7_DNABits == io.enc = "dna" => io.bits = 2 * Len(io.in)

\* the bytes with a code
CodedBytes(c) == {i \in Byte : c.codelens[i] > 0}

\* C8: after vcCreateCodec, with either value of partial, every code length
\* is at most HUFF_CUTOFF
C8_LengthCap ==
  v.state = CODED_WITH => \A i \in Byte : v.codelens[i] <= HUFF_CUTOFF

\* a codec of more than HUFF_CUTOFF + 1 codes over counts that double: the
\* rarest bytes sit at the cap
C8_Witness ==
  /\ v.state = CODED_WITH /\ v.esc_code >= 0
  /\ Cardinality(CodedBytes(v)) > HUFF_CUTOFF + 1
  /\ Cardinality({i \in Byte : v.codelens[i] = HUFF_CUTOFF}) >= 2

\* the code of byte i is a prefix of the code of byte j, read from the
\* most significant bit
IsPrefix(c, i, j) ==
  /\ c.codelens[i] <= c.codelens[j]
  /\ c.codebits[j] \div Pow2(c.codelens[j] - c.codelens[i]) = c.codebits[i]

\* C9: after vcCreateCodec, the code of no byte is a prefix of the code of
\* another byte, among the bytes with a code
C9_PrefixCode ==
  v.state = CODED_WITH
    => \A i \in CodedBytes(v), j \in CodedBytes(v) : i # j => ~IsPrefix(v, i, j)

\* a codec with codes of at least six different lengths
C9_Witness ==
  /\ v.state = CODED_WITH
  /\ Cardinality({v.codelens[i] : i \in CodedBytes(v)}) >= 6

\* C10: after vcCreateCodec, a recorded escape byte has a code
C10_Escape ==
  v.state = CODED_WITH /\ v.esc_code >= 0 => v.codelens[v.esc_code] > 0

\* C11: the predefined DNA compressor is constant: no call of the API
\* changes its state, histogram, code tables or escape; vcSerialize of it
\* returns 0 (writes nothing) and vcDestroy leaves it as it is
C11_DNAConstant ==
  /\ dna = DNAInit
  /\ blob = <<>>

\* C12: when the codec has no escape and the input holds a byte with no
\* code, vcEncode takes the overflow fallback: it returns 8(n+1) and writes
\* 0xFF and the input verbatim
C12_Unrepresentable ==
  io.enc = "v" /\ Exists("v") /\ v.esc_code < 0 /\ ~Representable(v, io.in)
    => io.bits = 8 * (Len(io.in) + 1) /\ io.mem = <<255>> \o io.in

\* C13: after vcCreateCodec, every byte with a non-zero count has a code
\* (also when one distinct byte was counted and partial = false), and every
\* byte with a zero count other than the escape byte has none
C13_CodedBytes ==
  v.state = CODED_WITH
    => \A b \in Byte :
         /\ v.hist[b] > 0 => v.codelens[b] > 0
         /\ v.hist[b] = 0 /\ b # v.esc_code => v.codelens[b] = 0

\* C14: a vcDecode (the step that counts one more decode by h) of a
\* compressed stream with at least one complete 64-bit word byte-swaps the complete words if and only if the host that encoded
\* the stream and the decoding host differ in endianness; a stream decoded
\* on the host that encoded it is never swapped
C14_SwapIffForeign ==
  [][\A h \in {"v", "w"} :
       /\ io'.dec = h /\ io'.ndec = io.ndec + 1 /\ Coded(Comp(h))
       /\ io.enc \in {"v", "w"} /\ Exists(io.enc)
       /\ io.mem[1] # 255 /\ io.bits >= 64
       => (Flips(Comp(h), io.mem) <=> Comp(io.enc).isbig # Comp(h).isbig)]_vars

\* C15: vcDecode ends on every input: for a compressor with a codec and any
\* buffer and bit count, every step of the decoding loop consumes at least
\* one bit, and a 16-bit prefix whose symbol has length 0 ends the decoding
\* (no decode runs on without consuming its input)
C15_DecodeEnds ==
  io.dec = "v" => io.status # "overrun"

\* C16: vcCreateCodec builds a codec only from a non-empty histogram: a
\* compressor whose 256 counts are all zero (also after a vcAddToTable of
\* zero bytes made it Filled) never enters a Coded state
C16_NonEmptyHistogram ==
  v.state = CODED_WITH => \E b \in Byte : v.hist[b] > 0

\* C17: vcDecode leaves the encoded buffer it reads as it was (so that a
\* second decode of the same buffer and bit count sees the same stream)
C17_BufferKept ==
  [][io'.ndec = io.ndec + 1 => io'.mem = io.mem]_vars

====
